---- MODULE Spec2Model ----
(***************************************************************************)
(* xunused (src/main.cpp): cross-translation-unit detection of unused      *)
(* functions.  Every translation unit (TU) is matched by its own           *)
(* FunctionDeclMatchHandler (run / handleUse fill the local sets Defs and  *)
(* Uses), then FunctionDeclMatchHandler::finalize merges the TU's result   *)
(* into the global table AllDecls under the global Mutex, and main prints  *)
(* one warning per record with a definition and no use.                    *)
(*                                                                         *)
(* Encoding.  A function entity is a natural number; entity 0 stands for a *)
(* function for which index::generateUSRForDecl fails, the entities        *)
(* 1..NumSyms have the USR equal to their number.  Within one TU the       *)
(* canonical declaration of an entity is the entity itself (the pointer    *)
(* returned by getCanonicalDecl).  File names and qualified names are      *)
(* naturals too, 0 being the empty string.                                 *)
(***************************************************************************)
EXTENDS Integers, FiniteSets, Sequences, TLC

\* Bounds of the model.
NumTU == 3
NumSyms == 1
MaxNodes == 3
MaxExtractNodes == 1
MaxFailNodes == 2
MaxUSRNodes == 3
MaxRefNodes == 2
MaxLiveNodes == 2

TUs == 1..NumTU
Syms == 1..NumSyms
Decls == 0..NumSyms

VARIABLES
  ast,        \* ast[t]: the AST nodes of TU t the match finder has delivered
  Defs,       \* Defs[t]: FunctionDeclMatchHandler::Defs of TU t's handler
  Uses,       \* Uses[t]: FunctionDeclMatchHandler::Uses of TU t's handler
  pc,         \* pc[t]: where TU t's HandleTranslationUnit stands
  Mutex,      \* the TU holding the global Mutex, 0 when it is free
  AllDecls,   \* the global table, a function from the USRs present to DefInfo
  Err,        \* the error Executor->execute returns (TRUE: some TU failed)
  mainpc,     \* where main stands
  report,     \* the warnings main has printed, in print order
  NumUnusedFunctions  \* the statistic counter

vars == <<ast, Defs, Uses, pc, Mutex, AllDecls, Err, mainpc, report,
          NumUnusedFunctions>>

----------------------------------------------------------------------------
\* AST nodes.  attr names the one property of the node that run / handleUse
\* look at; a "plain" node has none of them.
FnDeclAttrs == {"plain", "weak", "constructorAttr", "noBody", "overriding",
                "destructor", "main", "systemHeader", "notMainFile"}
RefMatches == {"declRef", "memberRef", "cxxConstructExpr"}
RefAttrs == {"plain", "systemHeader", "notFunction"}

FnDeclNodes == [match : {"fnDecl"}, decl : Decls, attr : FnDeclAttrs]
RefNodes ==
  [match : {"declRef"}, decl : Decls, attr : RefAttrs]
    \cup [match : RefMatches, decl : Decls, attr : {"plain"}]

\* Two families of analysed programs.  MergeNodes: plain and weak definitions
\* and references of the entities that have a USR, at most MaxNodes nodes in
\* the whole program.  ExtractNodes: every kind of node, of every entity, at
\* most MaxExtractNodes nodes in the whole program.
MergeNodes ==
  [match : {"fnDecl"}, decl : Syms, attr : {"plain", "weak"}]
    \cup [match : {"declRef"}, decl : Syms, attr : {"plain"}]
ExtractNodes == FnDeclNodes \cup RefNodes

\* A third family, USRNodes: plain definitions and references of every
\* entity, the one without a USR included, at most MaxUSRNodes nodes.
USRNodes == [match : {"fnDecl", "declRef"}, decl : Decls, attr : {"plain"}]

\* A fourth family, UseNodes: plain definitions and the three kinds of
\* references of the entities that have a USR, at most MaxRefNodes nodes.
UseNodes ==
  [match : {"fnDecl"} \cup RefMatches, decl : Syms, attr : {"plain"}]

\* bool getUSRForDecl(const Decl *, std::string &USR): TRUE when a USR exists.
getUSRForDecl(F) == F \in Syms
USRof(F) == F

\* The entities for which getUSRForDecl fails.
NoUSR == {F \in Decls : ~getUSRForDecl(F)}

\* A fifth family, LiveNodes: plain definitions of every entity and
\* references of the entities without a USR, at most MaxLiveNodes nodes.
LiveNodes ==
  [match : {"fnDecl"}, decl : Decls, attr : {"plain"}]
    \cup [match : {"declRef"}, decl : NoUSR, attr : {"plain"}]

\* handleUse: the declaration inserted into Uses, as a set (empty: ignored).
handleUse(n) ==
  IF n.attr = "notFunction" THEN {}
  ELSE IF n.attr = "systemHeader" THEN {}
  ELSE {n.decl}

\* A variant of runInsertsDef without the isMain test.
runInsertsDef_NoMainCheck(n) ==
  /\ n.match = "fnDecl"
  /\ n.attr # "noBody"
  /\ n.attr # "systemHeader"
  /\ n.attr # "notMainFile"
  /\ n.attr # "overriding"
  /\ n.attr # "destructor"

\* run on a "fnDecl" match: TRUE when the definition is inserted into Defs.
runInsertsDef(n) ==
  /\ n.match = "fnDecl"
  /\ n.attr # "noBody"
  /\ n.attr # "systemHeader"
  /\ n.attr # "notMainFile"
  /\ n.attr # "overriding"
  /\ n.attr # "destructor"
  /\ n.attr # "main"

\* A variant of runInsertsUse without the self-use of a definition that
\* carries the constructor attribute.
runInsertsUse_NoSelfUse(n) ==
  IF n.match = "fnDecl" THEN {} ELSE handleUse(n)

\* run: the declarations one match adds to Uses.
runInsertsUse(n) ==
  IF n.match = "fnDecl"
  THEN IF runInsertsDef(n) /\ n.attr = "constructorAttr"
       THEN handleUse([n EXCEPT !.attr = "plain"])
       ELSE {}
  ELSE handleUse(n)

\* FunctionDecl::isWeak of the canonical declaration of entity F in TU t.
isWeak(t, F) ==
  \E n \in ast[t] : n.match = "fnDecl" /\ n.decl = F /\ n.attr = "weak"

----------------------------------------------------------------------------
\* Source locations: TU t's main file has the name t; entity F is defined on
\* line F + t of it, and its prototype sits on line F of the shared header,
\* which is file NumTU + 1.  The TUs with an odd number include the header.
Header == NumTU + 1
LineOf(t, F) == F + t
getDeclarations(t, F) ==
  IF t % 2 = 1 THEN <<[Filename |-> Header, Line |-> F]>> ELSE <<>>

NullDef == <<0, 0>>
DefInfoInit(Definition, U) ==
  [Definition |-> Definition, Uses |-> U, Name |-> 0, Filename |-> 0,
   Line |-> 0, Declarations |-> <<>>]

\* std::map::emplace: insert (k, v) unless k is present.
emplace(m, k, v) ==
  IF k \in DOMAIN m THEN m
  ELSE [x \in DOMAIN m \cup {k} |-> IF x = k THEN v ELSE m[x]]

\* Variants of recordUnusedDef with a slip: the record is created with one
\* use; an existing record is replaced as a whole, use count included; an
\* existing record keeps the definition it has.
recordUnusedDef_StartsAtOne(m, t, F) ==
  IF ~getUSRForDecl(F) THEN m
  ELSE LET m1 == emplace(m, USRof(F), DefInfoInit(<<t, F>>, 1))
       IN [m1 EXCEPT ![USRof(F)] =
             [@ EXCEPT !.Definition = <<t, F>>, !.Name = F, !.Filename = t,
                       !.Line = LineOf(t, F),
                       !.Declarations = getDeclarations(t, F)]]

recordUnusedDef_ResetsUses(m, t, F) ==
  IF ~getUSRForDecl(F) THEN m
  ELSE [x \in DOMAIN m \cup {USRof(F)} |->
          IF x = USRof(F)
          THEN [Definition |-> <<t, F>>, Uses |-> 0, Name |-> F,
                Filename |-> t, Line |-> LineOf(t, F),
                Declarations |-> getDeclarations(t, F)]
          ELSE m[x]]

recordUnusedDef_KeepsFirst(m, t, F) ==
  IF ~getUSRForDecl(F) THEN m
  ELSE emplace(m, USRof(F),
               [Definition |-> <<t, F>>, Uses |-> 0, Name |-> F,
                Filename |-> t, Line |-> LineOf(t, F),
                Declarations |-> getDeclarations(t, F)])

\* One iteration of the loop over UnusedDefs (lines 106-124).
recordUnusedDef(m, t, F) ==
  IF ~getUSRForDecl(F) THEN m
  ELSE LET m1 == emplace(m, USRof(F), DefInfoInit(<<t, F>>, 0))
       IN [m1 EXCEPT ![USRof(F)] =
             [@ EXCEPT !.Definition = <<t, F>>,
                       !.Name = F,
                       !.Filename = t,
                       !.Line = LineOf(t, F),
                       !.Declarations = getDeclarations(t, F)]]

\* A variant of recordExternalUse that does not test the result of
\* getUSRForDecl and goes on with the USR it was left with.
recordExternalUse_IgnoresFailure(m, F) ==
  IF USRof(F) \in DOMAIN m
  THEN [m EXCEPT ![USRof(F)] = [@ EXCEPT !.Uses = @ + 1]]
  ELSE emplace(m, USRof(F), DefInfoInit(NullDef, 1))

\* A variant of recordExternalUse that forgets the increment of a record
\* that exists.
recordExternalUse_NoIncrement(m, F) ==
  IF ~getUSRForDecl(F) THEN m
  ELSE emplace(m, USRof(F), DefInfoInit(NullDef, 1))

\* A variant of recordExternalUse that counts every external use twice.
recordExternalUse_CountsTwice(m, F) ==
  IF ~getUSRForDecl(F) THEN m
  ELSE IF USRof(F) \in DOMAIN m
       THEN [m EXCEPT ![USRof(F)] = [@ EXCEPT !.Uses = @ + 2]]
       ELSE emplace(m, USRof(F), DefInfoInit(NullDef, 2))

\* A variant of recordExternalUse that creates the record with no use.
recordExternalUse_CreatesWithZero(m, F) ==
  IF ~getUSRForDecl(F) THEN m
  ELSE IF USRof(F) \in DOMAIN m
       THEN [m EXCEPT ![USRof(F)] = [@ EXCEPT !.Uses = @ + 1]]
       ELSE emplace(m, USRof(F), DefInfoInit(NullDef, 0))

\* One iteration of the loop over ExternalUses (lines 146-156).
recordExternalUse(m, F) ==
  IF ~getUSRForDecl(F) THEN m
  ELSE IF USRof(F) \in DOMAIN m
       THEN [m EXCEPT ![USRof(F)] = [@ EXCEPT !.Uses = @ + 1]]
       ELSE emplace(m, USRof(F), DefInfoInit(NullDef, 1))

\* The loops run over a std::set in increasing order of its elements.
RECURSIVE foldUnused(_, _, _)
foldUnused(m, t, S) ==
  IF S = {} THEN m
  ELSE LET F == CHOOSE x \in S : \A y \in S : x <= y
       IN foldUnused(recordUnusedDef(m, t, F), t, S \ {F})

RECURSIVE foldExternal(_, _)
foldExternal(m, S) ==
  IF S = {} THEN m
  ELSE LET F == CHOOSE x \in S : \A y \in S : x <= y
       IN foldExternal(recordExternalUse(m, F), S \ {F})

----------------------------------------------------------------------------
Init ==
  /\ ast = [t \in TUs |-> {}]
  /\ Defs = [t \in TUs |-> {}]
  /\ Uses = [t \in TUs |-> {}]
  /\ pc = [t \in TUs |-> "match"]
  /\ Mutex = 0
  /\ AllDecls = <<>>
  /\ Err = FALSE
  /\ mainpc = "execute"
  /\ report = <<>>
  /\ NumUnusedFunctions = 0

NodeCount == Cardinality(UNION {{<<t, n>> : n \in ast[t]} : t \in TUs})

\* MatchFinder delivers one node of TU t to FunctionDeclMatchHandler::run.
\* The analysed program has at most max nodes (the specifications repeat that
\* guard in front of the choice of t and n).
Run(t, n, max) ==
  /\ pc[t] = "match"
  /\ n \notin ast[t]
  /\ NodeCount < max
  /\ n.match = "fnDecl" =>
       \A o \in ast[t] : ~(o.match = "fnDecl" /\ o.decl = n.decl)
  /\ ast' = [ast EXCEPT ![t] = @ \cup {n}]
  /\ Defs' = [Defs EXCEPT ![t] = IF runInsertsDef(n) THEN @ \cup {n.decl} ELSE @]
  /\ Uses' = [Uses EXCEPT ![t] = @ \cup runInsertsUse(n)]
  /\ UNCHANGED <<pc, Mutex, AllDecls, Err, mainpc, report, NumUnusedFunctions>>

\* A variant of FinalizeUnused that takes every definition of the TU as an
\* unused one.
FinalizeUnused_AllDefs(t) ==
  /\ pc[t] = "match"
  /\ Mutex = 0
  /\ Mutex' = t
  /\ AllDecls' = foldUnused(AllDecls, t, Defs[t])
  /\ pc' = [pc EXCEPT ![t] = "locked"]
  /\ UNCHANGED <<ast, Defs, Uses, Err, mainpc, report, NumUnusedFunctions>>

\* A variant of FinalizeUnused that does not wait for the Mutex.
FinalizeUnused_NoLock(t) ==
  /\ pc[t] = "match"
  /\ Mutex' = t
  /\ AllDecls' = foldUnused(AllDecls, t, Defs[t] \ Uses[t])
  /\ pc' = [pc EXCEPT ![t] = "locked"]
  /\ UNCHANGED <<ast, Defs, Uses, Err, mainpc, report, NumUnusedFunctions>>

\* finalize, first part: take the Mutex and merge the unused definitions.
FinalizeUnused(t) ==
  /\ pc[t] = "match"
  /\ Mutex = 0
  /\ Mutex' = t
  /\ AllDecls' = foldUnused(AllDecls, t, Defs[t] \ Uses[t])
  /\ pc' = [pc EXCEPT ![t] = "locked"]
  /\ UNCHANGED <<ast, Defs, Uses, Err, mainpc, report, NumUnusedFunctions>>

\* A variant of FinalizeExternal that leaves finalize with the Mutex held
\* when an external use has no USR.
FinalizeExternal_HoldsOnSkip(t, ok) ==
  /\ pc[t] = "locked"
  /\ LET D == {F \in Defs[t] : ~isWeak(t, F)}
     IN /\ Defs' = [Defs EXCEPT ![t] = D]
        /\ AllDecls' = foldExternal(AllDecls, Uses[t] \ D)
        /\ Mutex' = IF \E F \in Uses[t] \ D : ~getUSRForDecl(F) THEN t ELSE 0
  /\ pc' = [pc EXCEPT ![t] = IF ok THEN "done" ELSE "erred"]
  /\ Err' = (Err \/ ~ok)
  /\ UNCHANGED <<ast, Uses, mainpc, report, NumUnusedFunctions>>

\* A variant of FinalizeExternal that keeps the weak definitions in Defs.
FinalizeExternal_KeepsWeak(t, ok) ==
  /\ pc[t] = "locked"
  /\ AllDecls' = foldExternal(AllDecls, Uses[t] \ Defs[t])
  /\ Mutex' = 0
  /\ pc' = [pc EXCEPT ![t] = IF ok THEN "done" ELSE "erred"]
  /\ Err' = (Err \/ ~ok)
  /\ UNCHANGED <<ast, Defs, Uses, mainpc, report, NumUnusedFunctions>>

\* finalize, second part: drop the weak definitions, merge the external
\* uses and release the Mutex (the unique_lock goes out of scope).  That ends
\* HandleTranslationUnit, which runs finalize whatever the diagnostics of the
\* TU say: the executor then counts the TU as completed ("done") or, when its
\* source had errors, as failed ("erred"), and execute returns an error.
FinalizeExternal(t, ok) ==
  /\ pc[t] = "locked"
  /\ LET D == {F \in Defs[t] : ~isWeak(t, F)}
     IN /\ Defs' = [Defs EXCEPT ![t] = D]
        /\ AllDecls' = foldExternal(AllDecls, Uses[t] \ D)
  /\ Mutex' = 0
  /\ pc' = [pc EXCEPT ![t] = IF ok THEN "done" ELSE "erred"]
  /\ Err' = (Err \/ ~ok)
  /\ UNCHANGED <<ast, Uses, mainpc, report, NumUnusedFunctions>>

\* The frontend action of TU t fails before HandleTranslationUnit is called
\* (the file cannot be read, the command line is wrong).
Fail(t) ==
  /\ pc[t] = "match"
  /\ ast[t] = {}
  /\ pc' = [pc EXCEPT ![t] = "failed"]
  /\ Err' = TRUE
  /\ UNCHANGED <<ast, Defs, Uses, Mutex, AllDecls, mainpc, report,
                 NumUnusedFunctions>>

\* A variant of Unused that looks at the definition only.
Unused_IgnoresUses(m) == {k \in DOMAIN m : m[k].Definition # NullDef}

\* The findings main prints, in the order of the map's keys.
Unused(m) == {k \in DOMAIN m : m[k].Definition # NullDef /\ m[k].Uses = 0}

RECURSIVE Findings(_, _)
Findings(m, S) ==
  IF S = {} THEN <<>>
  ELSE LET k == CHOOSE x \in S : \A y \in S : x <= y
       IN <<[Filename |-> m[k].Filename, Line |-> m[k].Line,
             Name |-> m[k].Name, Notes |-> m[k].Declarations]>>
          \o Findings(m, S \ {k})

\* A variant of Report that does not wait for the TUs.
Report_BeforeJoin ==
  /\ mainpc = "execute"
  /\ report' = Findings(AllDecls, Unused(AllDecls))
  /\ NumUnusedFunctions' = Cardinality(Unused(AllDecls))
  /\ mainpc' = "exit"
  /\ UNCHANGED <<ast, Defs, Uses, pc, Mutex, AllDecls, Err>>

\* main after Executor->execute has returned (lines 290-305).
Report ==
  /\ mainpc = "execute"
  /\ \A t \in TUs : pc[t] \in {"done", "erred", "failed"}
  /\ report' = Findings(AllDecls, Unused(AllDecls))
  /\ NumUnusedFunctions' = Cardinality(Unused(AllDecls))
  /\ mainpc' = "exit"
  /\ UNCHANGED <<ast, Defs, Uses, pc, Mutex, AllDecls, Err>>

\* Every TU is analysed without an error; the program is made of MergeNodes.
Next ==
  \/ /\ NodeCount < MaxNodes
     /\ \E t \in TUs, n \in MergeNodes : Run(t, n, MaxNodes)
  \/ \E t \in TUs : FinalizeUnused(t)
  \/ \E t \in TUs : FinalizeExternal(t, TRUE)
  \/ Report

Spec == Init /\ [][Next]_vars

\* Every TU is analysed without an error; the program is made of ExtractNodes.
NextExtract ==
  \/ /\ NodeCount < MaxExtractNodes
     /\ \E t \in TUs, n \in ExtractNodes : Run(t, n, MaxExtractNodes)
  \/ \E t \in TUs : FinalizeUnused(t)
  \/ \E t \in TUs : FinalizeExternal(t, TRUE)
  \/ Report

SpecExtract == Init /\ [][NextExtract]_vars

\* The analysis of a TU may fail, before or after HandleTranslationUnit.
NextFail ==
  \/ /\ NodeCount < MaxFailNodes
     /\ \E t \in TUs, n \in MergeNodes : Run(t, n, MaxFailNodes)
  \/ \E t \in TUs : FinalizeUnused(t)
  \/ \E t \in TUs, ok \in BOOLEAN : FinalizeExternal(t, ok)
  \/ \E t \in TUs : Fail(t)
  \/ Report

SpecFail == Init /\ [][NextFail]_vars

\* Every TU is analysed without an error; the program is made of USRNodes.
NextUSR ==
  \/ /\ NodeCount < MaxUSRNodes
     /\ \E t \in TUs, n \in USRNodes : Run(t, n, MaxUSRNodes)
  \/ \E t \in TUs : FinalizeUnused(t)
  \/ \E t \in TUs : FinalizeExternal(t, TRUE)
  \/ Report

SpecUSR == Init /\ [][NextUSR]_vars

\* Every TU is analysed without an error; the program is made of UseNodes.
NextUse ==
  \/ /\ NodeCount < MaxRefNodes
     /\ \E t \in TUs, n \in UseNodes : Run(t, n, MaxRefNodes)
  \/ \E t \in TUs : FinalizeUnused(t)
  \/ \E t \in TUs : FinalizeExternal(t, TRUE)
  \/ Report

SpecUse == Init /\ [][NextUse]_vars

\* Fair scheduling.  The program is made of LiveNodes, at most MaxLiveNodes
\* of them, and a TU may fail.  A worker that is about to enter finalize gets
\* the Mutex if it stays free (the Mutex is taken once per TU), a worker
\* inside finalize runs on to its end, and main goes on once execute has
\* returned.
NextLive ==
  \/ /\ NodeCount < MaxLiveNodes
     /\ \E t \in TUs, n \in LiveNodes : Run(t, n, MaxLiveNodes)
  \/ \E t \in TUs : FinalizeUnused(t)
  \/ \E t \in TUs, ok \in BOOLEAN : FinalizeExternal(t, ok)
  \/ \E t \in TUs : Fail(t)
  \/ Report

Fairness ==
  /\ \A t \in TUs : WF_vars(FinalizeUnused(t))
  /\ \A t \in TUs : WF_vars(\E ok \in BOOLEAN : FinalizeExternal(t, ok))
  /\ WF_vars(Report)

SpecLive == Init /\ [][NextLive]_vars /\ Fairness

\* createExecutorFromCommandLineArgs fails (lines 273-278): main prints the
\* error and returns 1; no TU is analysed and nothing is reported.
CreateExecutorFails ==
  /\ mainpc = "execute"
  /\ \A t \in TUs : pc[t] = "match" /\ ast[t] = {}
  /\ mainpc' = "return1"
  /\ pc' = [t \in TUs |-> "none"]
  /\ UNCHANGED <<ast, Defs, Uses, Mutex, AllDecls, Err, report,
                 NumUnusedFunctions>>

\* The exit status of the process: 1 after the return of line 277; main has
\* no other return statement, so after the report loop it is 0.
ExitStatus == IF mainpc = "return1" THEN 1 ELSE 0

\* The whole of main: the executor may not be created, and a TU may fail.
NextExit ==
  \/ CreateExecutorFails
  \/ /\ NodeCount < MaxFailNodes
     /\ \E t \in TUs, n \in MergeNodes : Run(t, n, MaxFailNodes)
  \/ \E t \in TUs : FinalizeUnused(t)
  \/ \E t \in TUs, ok \in BOOLEAN : FinalizeExternal(t, ok)
  \/ \E t \in TUs : Fail(t)
  \/ Report

SpecExit == Init /\ [][NextExit]_vars

----------------------------------------------------------------------------
\* What the analysed program says, read off the AST nodes delivered so far.
\* OrigDefs(t): the entities TU t defines with a body and without an
\* exemption (Defs[t] before finalize drops the weak ones).
ExemptAttrs == {"noBody", "overriding", "destructor", "main"}
Skipped == ExemptAttrs \cup {"systemHeader", "notMainFile"}
DefinedIn(t, F) ==
  \E n \in ast[t] : n.match = "fnDecl" /\ n.decl = F /\ n.attr \notin Skipped
WeakIn(t, F) == [match |-> "fnDecl", decl |-> F, attr |-> "weak"] \in ast[t]
StrongIn(t, F) == DefinedIn(t, F) /\ ~WeakIn(t, F)
OrigDefs(t) == {F \in Decls : DefinedIn(t, F)}
WeakDefs(t) == {F \in Decls : WeakIn(t, F)}
StrongDefs(t) == {F \in Decls : StrongIn(t, F)}
Candidates(t) == OrigDefs(t) \ Uses[t]
External(t) == Uses[t] \ StrongDefs(t)
Merged(t) == pc[t] \in {"done", "erred"}

\* The ids for which a warning has been printed, and the warnings of one id.
Reported == {report[i].Name : i \in 1..Len(report)}
FindingsOf(f) == {i \in 1..Len(report) : report[i].Name = f}
Finished == mainpc = "exit"

\* f is defined in TU A only, not referenced there, and referenced in B,
\* which does not define it.
DefinedOnlyIn(f, A) ==
  DefinedIn(A, f) /\ \A t \in TUs \ {A} : ~DefinedIn(t, f)
DefinedHereUsedThere(f, A, B) ==
  /\ f \notin Uses[A] /\ DefinedOnlyIn(f, A)
  /\ A # B /\ f \in Uses[B]

\* C1: a function defined in exactly one TU A, not referenced in A and
\* referenced in another TU B, is not reported, in every merge order; as soon
\* as B has merged and A has recorded its candidates the record of f holds
\* A's definition and a use count of at least 1.
C1_ExternalUseSuppresses ==
  \A f \in Syms : \A A \in TUs :
    (f \notin Uses[A] /\ DefinedOnlyIn(f, A)) =>
      \A B \in TUs \ {A} :
        f \in Uses[B] =>
          /\ Finished => f \notin Reported
          /\ (Merged(B) /\ pc[A] \in {"locked", "done", "erred"}) =>
               /\ f \in DOMAIN AllDecls
               /\ AllDecls[f].Definition = <<A, f>>
               /\ AllDecls[f].Uses >= 1

\* B merged first and created the record, A holds the Mutex and has just
\* written its definition into that record.
C1_Witness ==
  \E f \in Syms, A \in TUs, B \in TUs :
    /\ DefinedHereUsedThere(f, A, B)
    /\ Merged(B) /\ pc[A] = "locked"
    /\ AllDecls[f].Definition = <<A, f>> /\ AllDecls[f].Uses = 1

\* f is defined in TU A only and referenced nowhere.
DefinedNeverUsed(f, A) ==
  /\ \A t \in TUs : f \notin Uses[t]
  /\ DefinedOnlyIn(f, A)

\* C2: a function defined in exactly one TU and referenced in no TU has
\* exactly one finding in the report, at its definition in that TU.
C2_ExactlyOneFinding ==
  Finished =>
    \A f \in Syms, A \in TUs :
      DefinedNeverUsed(f, A) =>
        /\ Cardinality(FindingsOf(f)) = 1
        /\ \A i \in FindingsOf(f) :
             report[i].Filename = A /\ report[i].Line = LineOf(A, f)

\* The run is over, every TU merged, and the report holds the one warning,
\* at the definition in A.
C2_Witness ==
  /\ Finished
  /\ \E f \in Syms, A \in TUs :
       /\ DefinedNeverUsed(f, A)
       /\ \A t \in TUs : Merged(t)
       /\ NumUnusedFunctions = 1 /\ Len(report) = 1
       /\ report[1].Name = f /\ report[1].Filename = A

\* The table the TUs that merged produce when they merge in the order of
\* their numbers.
RECURSIVE SeqMerge(_)
SeqMerge(k) ==
  IF k = 0 THEN <<>>
  ELSE IF Merged(k)
       THEN foldExternal(foldUnused(SeqMerge(k - 1), k, Candidates(k)),
                         External(k))
       ELSE SeqMerge(k - 1)

\* The statement of C3 as written: the final table is the same for every
\* order of the merges, that is, it is the table the merges produce in the
\* order of the TU numbers.
C3_OrderIndependentTable ==
  Finished => AllDecls = SeqMerge(NumTU)

\* The TUs that merged with f among their unused candidates.
CandidateTUs(f) == {t \in TUs : Merged(t) /\ f \in Candidates(t)}

\* C3: every order of the merges yields the same ids, and for every id the
\* same use count, the same name and a definition in the same cases; the
\* whole record, hence the whole table and the report, is the same when the
\* id is an unused candidate of at most one TU.  Otherwise the definition
\* site and the declaration sites are those of a TU that has the id among
\* its candidates.
C3_OrderIndependentUpToSite ==
  Finished =>
    LET m == SeqMerge(NumTU)
    IN /\ DOMAIN AllDecls = DOMAIN m
       /\ \A k \in DOMAIN AllDecls :
            /\ AllDecls[k].Uses = m[k].Uses
            /\ AllDecls[k].Name = m[k].Name
            /\ (AllDecls[k].Definition = NullDef) <=> (m[k].Definition = NullDef)
            /\ Cardinality(CandidateTUs(k)) <= 1 => AllDecls[k] = m[k]
            /\ AllDecls[k].Definition # NullDef =>
                 \E t \in CandidateTUs(k) :
                   /\ AllDecls[k].Definition = <<t, k>>
                   /\ AllDecls[k].Filename = t
                   /\ AllDecls[k].Line = LineOf(t, k)
                   /\ AllDecls[k].Declarations = getDeclarations(t, k)

\* The merges ran in another order than that of the TU numbers and left
\* another definition site, on a record that also counts a use.
C3_Witness ==
  /\ Finished
  /\ AllDecls # SeqMerge(NumTU)
  /\ \E k \in DOMAIN AllDecls : AllDecls[k].Uses >= 1 /\ AllDecls[k].Definition # NullDef

\* The TUs that are inside finalize.
InFinalize == {t \in TUs : pc[t] = "locked"}

\* C4: at most one TU is inside finalize, and it is the one that holds the
\* Mutex; main reads the table when no TU is inside finalize; and every step
\* that changes the table is a step of the one TU that holds the Mutex
\* before or after it.
C4_MutualExclusion ==
  /\ [](/\ Cardinality(InFinalize) <= 1
        /\ \A t \in TUs : pc[t] = "locked" <=> Mutex = t
        /\ Finished => InFinalize = {})
  /\ [][AllDecls' # AllDecls =>
          \E t \in TUs :
            /\ Mutex = t \/ Mutex' = t
            /\ pc'[t] # pc[t]
            /\ \A u \in TUs \ {t} : pc'[u] = pc[u] /\ pc[u] # "locked"]_vars

\* One TU holds the Mutex while another one, with definitions to merge, waits.
C4_Witness ==
  \E t \in TUs, u \in TUs :
    /\ t # u
    /\ pc[t] = "locked" /\ Mutex = t
    /\ pc[u] = "match" /\ Candidates(u) # {} /\ Candidates(t) # {}

\* f is weak in A, strong in B and referenced in C, another TU than B that
\* has no strong definition of f.
WeakStrongUse(f, A, B, C) ==
  /\ WeakIn(A, f) /\ StrongIn(B, f)
  /\ C # B /\ f \in Uses[C] /\ ~StrongIn(C, f)

ExemptIn(t, F) ==
  \E n \in ast[t] : n.match = "fnDecl" /\ n.decl = F /\ n.attr \in ExemptAttrs

\* C6: a definition that is an overriding method, a destructor, main or has
\* no body never enters Defs, no record takes it as its definition, and no
\* warning points at it.
C6_ExemptNeverReported ==
  /\ \A t \in TUs, F \in Decls : ExemptIn(t, F) => F \notin Defs[t]
  /\ \A k \in DOMAIN AllDecls :
       AllDecls[k].Definition # NullDef =>
         ~ExemptIn(AllDecls[k].Definition[1], AllDecls[k].Definition[2])
  /\ \A i \in 1..Len(report) :
       report[i].Filename \in TUs /\ ~ExemptIn(report[i].Filename, report[i].Name)

\* The run is over, a TU that merged holds an exempt definition of an entity
\* with a USR that no TU references, and nothing is reported for it.
C6_Witness ==
  /\ Finished
  /\ \E t \in TUs, F \in Syms :
       /\ ExemptIn(t, F) /\ Merged(t)
       /\ \A u \in TUs : F \notin Uses[u]
       /\ F \notin Reported

\* C7: after all merges a symbol is reported if and only if some TU defines
\* it and no TU references it.
C7_SinglePassEquivalent ==
  Finished =>
    \A f \in Syms :
      f \in Reported <=>
        /\ \E t \in TUs : DefinedIn(t, f)
        /\ \A t \in TUs : f \notin Uses[t]

\* C8: no step lowers the use count of a record or removes the record.
C8_UsesNeverDecrease ==
  [][\A k \in DOMAIN AllDecls :
       k \in DOMAIN AllDecls' /\ AllDecls'[k].Uses >= AllDecls[k].Uses]_vars

\* TU A holds the Mutex and has written its definition of f into a record
\* that already counted a use.
C8_Witness ==
  \E f \in Syms, A \in TUs :
    /\ pc[A] = "locked" /\ f \in Candidates(A)
    /\ AllDecls[f].Definition = <<A, f>> /\ AllDecls[f].Uses >= 1

\* C9: merging the unused candidates of TU t leaves, for each candidate with
\* a USR, one record that holds t's definition, name, file, line and
\* declaration sites and the use count the record had before (0 for a new
\* record); every other record is unchanged.
C9_LatestWriterWins ==
  [][\A t \in TUs :
       (pc[t] = "match" /\ pc'[t] = "locked") =>
         /\ DOMAIN AllDecls' = DOMAIN AllDecls \cup ((Defs[t] \ Uses[t]) \cap Syms)
         /\ \A F \in (Defs[t] \ Uses[t]) \cap Syms :
              AllDecls'[F] =
                [Definition |-> <<t, F>>,
                 Uses |-> IF F \in DOMAIN AllDecls THEN AllDecls[F].Uses ELSE 0,
                 Name |-> F, Filename |-> t, Line |-> LineOf(t, F),
                 Declarations |-> getDeclarations(t, F)]
         /\ \A k \in DOMAIN AllDecls \ (Defs[t] \ Uses[t]) :
              AllDecls'[k] = AllDecls[k]]_vars

\* TU t holds the Mutex and has overwritten the definition TU u had left.
C9_Witness ==
  \E f \in Syms, t \in TUs, u \in TUs :
    /\ t # u /\ Merged(u) /\ f \in Candidates(u)
    /\ pc[t] = "locked" /\ f \in Candidates(t)
    /\ AllDecls[f].Definition = <<t, f>>

\* The table the TUs that completed without an error produce, merging in the
\* order of their numbers.
RECURSIVE OKMerge(_)
OKMerge(k) ==
  IF k = 0 THEN <<>>
  ELSE IF pc[k] = "done"
       THEN foldExternal(foldUnused(OKMerge(k - 1), k, Candidates(k)),
                         External(k))
       ELSE OKMerge(k - 1)

AllReturned == \A t \in TUs : pc[t] \in {"done", "erred", "failed"}

\* C10: a TU whose analysis failed contributes no observation (the final
\* table has the records, use counts and definitions the other TUs produce),
\* and the report pass runs once every TU has returned.
C10_FailedTUContributesNothing ==
  /\ (AllReturned /\ mainpc = "execute") => ENABLED Report
  /\ Finished =>
       LET m == OKMerge(NumTU)
       IN /\ DOMAIN AllDecls = DOMAIN m
          /\ \A k \in DOMAIN AllDecls :
               /\ AllDecls[k].Uses = m[k].Uses
               /\ (AllDecls[k].Definition = NullDef) <=> (m[k].Definition = NullDef)

\* C11: a run in which execute returned an error ends with another exit
\* status than a run in which every analysis completed and nothing was
\* found unused, whose exit status is 0.
C11_ExitStatusReflectsFailure ==
  /\ (Finished /\ ~Err /\ report = <<>>) => ExitStatus = 0
  /\ (Finished /\ Err) => ExitStatus # 0

\* TU t holds a definition of F that carries the constructor attribute.
ConstructorIn(t, F) ==
  [match |-> "fnDecl", decl |-> F, attr |-> "constructorAttr"] \in ast[t]

\* C12: a definition with the constructor attribute is in Uses of its TU as
\* soon as it is in Defs, so it is never among the TU's unused candidates;
\* no record takes it as its definition, no warning points at it, and when
\* no other TU defines the function nothing is reported for it, whether or
\* not some TU references it.
C12_ConstructorSelfUse ==
  /\ \A t \in TUs, F \in Decls :
       ConstructorIn(t, F) =>
         /\ F \in Defs[t] /\ F \in Uses[t]
         /\ F \notin Defs[t] \ Uses[t]
         /\ (Finished /\ DefinedOnlyIn(F, t)) => F \notin Reported
  /\ \A k \in DOMAIN AllDecls :
       AllDecls[k].Definition # NullDef =>
         ~ConstructorIn(AllDecls[k].Definition[1], AllDecls[k].Definition[2])
  /\ \A i \in 1..Len(report) :
       ~ConstructorIn(report[i].Filename, report[i].Name)

\* The run is over; a TU that merged defines F, which has a USR, with the
\* constructor attribute, no node of any TU references F, and the table has
\* no record of F.
C12_Witness ==
  /\ Finished
  /\ \E t \in TUs, F \in Syms :
       /\ ConstructorIn(t, F) /\ Merged(t)
       /\ \A u \in TUs : \A n \in ast[u] : n.match = "fnDecl"
       /\ F \in Uses[t] /\ F \in Defs[t]
       /\ F \notin DOMAIN AllDecls /\ report = <<>>

\* C13: an unused candidate or an external use without a USR is dropped
\* alone: each part of finalize changes the table exactly as it would
\* without the observations that have no USR, the table never gets a record
\* for them, finalize ends and releases the Mutex, and main reports once
\* every TU has returned.
C13_USRFailureDropsOneObservation ==
  /\ [](/\ \A k \in DOMAIN AllDecls : k \notin NoUSR
        /\ (AllReturned /\ mainpc = "execute") => ENABLED Report)
  /\ [][\A t \in TUs :
          /\ (pc[t] = "match" /\ pc'[t] = "locked") =>
               AllDecls' = foldUnused(AllDecls, t, (Defs[t] \ Uses[t]) \ NoUSR)
          /\ (pc[t] = "locked" /\ pc'[t] # "locked") =>
               /\ AllDecls' = foldExternal(AllDecls, (Uses[t] \ Defs'[t]) \ NoUSR)
               /\ Mutex' = 0 /\ Merged(t)']_vars

\* The run is over; TU t had two unused candidates, one of them without a
\* USR, TU u had an external use without a USR, and the table holds the one
\* record of the candidate that has a USR, which is reported.
C13_Witness ==
  /\ Finished
  /\ \E t \in TUs, u \in TUs, F \in Syms, G \in NoUSR :
       /\ {F, G} \subseteq Candidates(t)
       /\ G \in External(u)
       /\ DOMAIN AllDecls = {F}
       /\ AllDecls[F].Definition = <<t, F>>
       /\ Len(report) = 1

\* C14: main reports only when every TU has returned and the Mutex is free;
\* the report step and every later step leave the table as it is; and no
\* step of the run removes a record from the table.
C14_ReportOnFrozenTable ==
  /\ [](Finished => AllReturned /\ Mutex = 0)
  /\ [][mainpc' = "exit" => AllDecls' = AllDecls]_vars
  /\ [][DOMAIN AllDecls \subseteq DOMAIN AllDecls']_vars

\* The run is over: one TU merged a definition that is reported, another
\* one merged with errors, the third one failed.
C14_Witness ==
  /\ Finished /\ Len(report) = 1
  /\ \E t \in TUs, u \in TUs, v \in TUs :
       /\ pc[t] = "done" /\ Candidates(t) # {}
       /\ pc[u] = "erred" /\ pc[v] = "failed"

\* The TUs that have merged with k among their external uses.
ExternalUsers(k) == {t \in TUs : Merged(t) /\ k \in External(t)}

\* C15: the second part of finalize raises the use count of every id among
\* the TU's external uses by exactly 1, creating the record without a
\* definition and with count 1 when it is absent, and leaves every other
\* record as it is; the first part changes no use count (a record it creates
\* counts 0); so the use count of an id is at any time the number of merges
\* done whose external uses held it, two TUs with the same result counting
\* twice.
C15_PureAccumulation ==
  /\ [](\A k \in DOMAIN AllDecls :
          AllDecls[k].Uses = Cardinality(ExternalUsers(k)))
  /\ [][\A t \in TUs :
          /\ (pc[t] = "locked" /\ pc'[t] # "locked") =>
               LET E == (Uses[t] \ Defs'[t]) \cap Syms
               IN /\ DOMAIN AllDecls' = DOMAIN AllDecls \cup E
                  /\ \A k \in E :
                       AllDecls'[k] =
                         IF k \in DOMAIN AllDecls
                         THEN [AllDecls[k] EXCEPT !.Uses = @ + 1]
                         ELSE DefInfoInit(NullDef, 1)
                  /\ \A k \in DOMAIN AllDecls \ E : AllDecls'[k] = AllDecls[k]
          /\ (pc[t] = "match" /\ pc'[t] = "locked") =>
               \A k \in DOMAIN AllDecls' :
                 AllDecls'[k].Uses =
                   IF k \in DOMAIN AllDecls THEN AllDecls[k].Uses ELSE 0]_vars

\* Two TUs with the same nodes have merged, each raised the count of f, and
\* a third TU has given the record its definition.
C15_Witness ==
  \E f \in Syms, t \in TUs, u \in TUs :
    /\ t # u /\ ast[t] = ast[u]
    /\ {t, u} \subseteq ExternalUsers(f)
    /\ AllDecls[f].Uses = 2 /\ AllDecls[f].Definition # NullDef

\* The use count of id k in table m, 0 when m has no record of k.
UseCount(m, k) == IF k \in DOMAIN m THEN m[k].Uses ELSE 0

\* C16: for a TU that defines and references f, the first part of finalize
\* leaves the record of f alone (f is no unused candidate, weak or not); the
\* second part raises the use count of f by 1 when the definition is weak
\* (the weak definition has left Defs by then) and leaves the record of f
\* alone when it is strong.
C16_WeakRemovedBetween ==
  [][\A t \in TUs, f \in Syms :
       (DefinedIn(t, f) /\ f \in Uses[t]) =>
         /\ (pc[t] = "match" /\ pc'[t] = "locked") =>
              /\ f \notin Defs[t] \ Uses[t]
              /\ f \in DOMAIN AllDecls' <=> f \in DOMAIN AllDecls
              /\ f \in DOMAIN AllDecls => AllDecls'[f] = AllDecls[f]
         /\ (pc[t] = "locked" /\ pc'[t] # "locked") =>
              IF WeakIn(t, f)
              THEN /\ f \notin Defs'[t]
                   /\ f \in DOMAIN AllDecls'
                   /\ AllDecls'[f].Uses = UseCount(AllDecls, f) + 1
              ELSE /\ f \in Defs'[t]
                   /\ f \in DOMAIN AllDecls' <=> f \in DOMAIN AllDecls
                   /\ f \in DOMAIN AllDecls => AllDecls'[f] = AllDecls[f]]_vars

\* TU t, which defines f weakly and references it, has merged and left the
\* one record of the table: f, used once, without a definition.
C16_Witness ==
  \E t \in TUs, f \in Syms :
    /\ WeakIn(t, f) /\ f \in Uses[t] /\ Merged(t)
    /\ \A u \in TUs \ {t} : pc[u] = "match"
    /\ f \in DOMAIN AllDecls
    /\ AllDecls[f].Definition = NullDef /\ AllDecls[f].Uses = 1

\* The number of references to F that the matchers deliver in TU t and that
\* handleUse does not ignore.
RefCount(t, F) ==
  Cardinality({n \in ast[t] :
                 n.match # "fnDecl" /\ n.decl = F /\ handleUse(n) # {}})

\* The statement of C17 as written: the merge of a TU raises the use count
\* of each of its external uses by the number of references the TU makes.
C17_RepeatedUsesAccumulate ==
  [][\A t \in TUs :
       (pc[t] = "locked" /\ pc'[t] # "locked") =>
         \A f \in (Uses[t] \ Defs'[t]) \cap Syms :
           AllDecls'[f].Uses = UseCount(AllDecls, f) + RefCount(t, f)]_vars

\* C17: the merge of a TU raises the use count of each of its external
\* uses by exactly 1, however many references the TU makes; when every TU
\* references f at most once, the use count of f is the number of
\* references made by the TUs that merged and do not define f.
C17_UsesCountOncePerTU ==
  /\ [](\A f \in Syms :
          (\A t \in TUs : RefCount(t, f) <= 1) =>
            UseCount(AllDecls, f) =
              Cardinality({t \in TUs : /\ Merged(t) /\ RefCount(t, f) = 1
                                       /\ ~DefinedIn(t, f)}))
  /\ [][\A t \in TUs :
          (pc[t] = "locked" /\ pc'[t] # "locked") =>
            \A f \in (Uses[t] \ Defs'[t]) \cap Syms :
              /\ RefCount(t, f) >= 1
              /\ AllDecls'[f].Uses = UseCount(AllDecls, f) + 1]_vars

\* TU t references f twice, does not define it, has merged, and the record
\* of f counts one use.
C17_Witness ==
  \E t \in TUs, f \in Syms :
    /\ RefCount(t, f) = 2 /\ ~DefinedIn(t, f) /\ Merged(t)
    /\ f \in DOMAIN AllDecls /\ AllDecls[f].Uses = 1

\* C18: under fair scheduling the Mutex, once taken, is released again (the
\* TU that holds it ends its merge), and the run reaches the state in which
\* every TU has returned (it got the Mutex and merged, or its analysis
\* failed), the Mutex is free and main has ended the report pass.
C18_EveryMergeCompletes ==
  /\ (Mutex # 0) ~> (Mutex = 0)
  /\ <>(AllReturned /\ Finished /\ Mutex = 0)

\* TU t is inside finalize and has skipped an unused candidate without a
\* USR, while TU u, which has matched a node, waits for the Mutex.
C18_Witness ==
  \E t \in TUs, u \in TUs :
    /\ t # u
    /\ pc[t] = "locked" /\ Mutex = t
    /\ \E F \in Defs[t] \ Uses[t] : ~getUSRForDecl(F)
    /\ pc[u] = "match" /\ ast[u] # {}

\* C19: the second part of TU t's finalize raises the use count of no id
\* that is among t's unused candidates, that is, of no record to which the
\* first part has given t's definition, whether weak or strong.
C19_CandidatesExternalDisjoint ==
  [][\A t \in TUs :
       (pc[t] = "locked" /\ pc'[t] # "locked") =>
         \A k \in DOMAIN AllDecls' :
           UseCount(AllDecls', k) > UseCount(AllDecls, k) =>
             /\ k \notin Defs[t] \ Uses[t]
             /\ k \in DOMAIN AllDecls => AllDecls[k].Definition # <<t, k>>]_vars

\* TU t, which defines f weakly and references it, has merged: it raised the
\* use count of the record that holds the definition of another TU.
C19_Witness ==
  \E t \in TUs, u \in TUs, f \in Syms :
    /\ t # u /\ Merged(t) /\ WeakIn(t, f) /\ f \in Uses[t]
    /\ f \in DOMAIN AllDecls
    /\ AllDecls[f].Definition = <<u, f>> /\ AllDecls[f].Uses = 1

\* C20: the set of reported ids does not depend on the merge order: it is
\* the set the merges in the order of the TU numbers yield, namely the ids
\* that some merged TU has among its unused candidates and no merged TU
\* among its external uses; each is reported once, at the definition of one
\* of the TUs that have it among their candidates.
C20_ReportedSetOrderIndependent ==
  Finished =>
    /\ Reported = Unused(SeqMerge(NumTU))
    /\ Reported = {f \in Syms : CandidateTUs(f) # {} /\ ExternalUsers(f) = {}}
    /\ Len(report) = Cardinality(Reported)
    /\ \A i \in 1..Len(report) :
         \E t \in CandidateTUs(report[i].Name) :
           /\ report[i].Filename = t
           /\ report[i].Line = LineOf(t, report[i].Name)
           /\ report[i].Notes = getDeclarations(t, report[i].Name)

\* The run is over; two TUs had f among their candidates, f is reported, and
\* the warning names another site than the one the merges in the order of
\* the TU numbers leave.
C20_Witness ==
  /\ Finished
  /\ \E f \in Reported :
       /\ Cardinality(CandidateTUs(f)) >= 2
       /\ report # Findings(SeqMerge(NumTU), Unused(SeqMerge(NumTU)))

====
